---- MODULE Spec2Model ----
(***************************************************************************)
(* State-machine model of the friend-network messaging core                *)
(* (src/core_communication.py) and of the toy RSA cryptosystem              *)
(* (src/rsa_encryption.py).                                                 *)
(***************************************************************************)
EXTENDS Integers, Sequences, FiniteSets, TLC

(* ---------------------------------------------------------------------- *)
(* Inputs and bounds                                                       *)
(* ---------------------------------------------------------------------- *)

\* person ids the callers of the routing specification use
PersonIds == {"A", "B", "C", "D"}

\* person ids the callers of the delivery specification use
CoreIds == {"A", "B", "C"}

\* person ids the callers of the construction specification use
StoreIds == {"A", "B"}

\* display names the callers pass to add_person
Names == {"n1", "n2"}

\* the (sender_id, receiver_id) of the Messages the delivery callers construct
Endpoints == {<<"A", "C">>, <<"C", "A">>, <<"C", "C">>}

\* at most this many distinct friendships (unordered pairs) are created
MaxEdges == 4

\* at most this many Message objects are constructed (delivery)
MaxMsgs == 2

\* at most this many Message objects are constructed (construction)
MaxStoreMsgs == 1

\* a mailbox holds at most this many entries
MaxInbox == 2

\* "no value": the fields of ret a call does not use
None == "None"

(* ---------------------------------------------------------------------- *)
(* State                                                                   *)
(* ---------------------------------------------------------------------- *)

VARIABLES
    people,   \* CommunicationNetwork.people: person_id -> Person
    msgs,     \* the Message objects constructed so far (a handle is an index)
    ret,      \* the last network call: its name, arguments and outcome
    rsa       \* the RSA caller's locals: keys, plaintext, ciphertext, result

vars == <<people, msgs, ret, rsa>>

Range(s) == {s[i] : i \in DOMAIN s}

\* s with x put at position i (1 <= i <= Len(s) + 1)
InsertAt(s, i, x) == SubSeq(s, 1, i - 1) \o <<x>> \o SubSeq(s, i, Len(s))

\* the record every network action leaves in ret
Ret(op, ok, a, b, m, path) ==
    [op |-> op, ok |-> ok, a |-> a, b |-> b, m |-> m, path |-> path]

(* ---------------------------------------------------------------------- *)
(* Person and Message                                                      *)
(* ---------------------------------------------------------------------- *)

\* Person.__init__: no friends, empty inbox.  connections is a Python set;
\* it is kept as the duplicate-free sequence in which the set iterates.
\* public_key and private_key are the attributes setup_person_keys adds
\* later: <<>> is "no such attribute".
Person(person_id, name) ==
    [person_id |-> person_id, name |-> name,
     connections |-> <<>>, messages |-> <<>>,
     public_key |-> <<>>, private_key |-> <<>>]

\* Person.add_friend: set.add.  An element already present changes nothing;
\* a new one takes the slot its hash gives it (pos), the others keep theirs.
add_friend(person, friend_id, pos) ==
    IF friend_id \in Range(person.connections)
    THEN person
    ELSE [person EXCEPT !.connections = InsertAt(@, pos, friend_id)]

\* the slots set.add can give friend_id in the iteration order of the
\* person's connection set (one, whatever it is, when it is already there)
Slots(person, friend_id) ==
    IF friend_id \in Range(person.connections)
    THEN {1}
    ELSE 1..(Len(person.connections) + 1)

\* mutant of add_message: list.insert(0, message)
add_message_front(person, m) ==
    [person EXCEPT !.messages = <<m>> \o @]

\* Person.add_message: list.append
add_message(person, m) ==
    [person EXCEPT !.messages = Append(@, m)]

\* Message.__init__: the route starts empty
Message(sender_id, receiver_id, message_body, message_type, metadata) ==
    [sender_id |-> sender_id, receiver_id |-> receiver_id,
     message_body |-> message_body, message_type |-> message_type,
     metadata |-> metadata, route |-> <<>>]

(* ---------------------------------------------------------------------- *)
(* CommunicationNetwork: pure parts                                        *)
(* ---------------------------------------------------------------------- *)

\* connections of a person as a set
connections(P, id) == Range(P[id].connections)

\* mutant of explore: the friend is queued with its parent's path
RECURSIVE explore_parent_path(_, _, _)
explore_parent_path(conns, visited, path) ==
    IF conns = <<>> THEN <<>>
    ELSE (IF Head(conns) \notin visited
          THEN << <<Head(conns), path>> >>
          ELSE <<>>)
         \o explore_parent_path(Tail(conns), visited, path)

\* the friends of current_id not yet visited, each with its path, in the
\* iteration order of the connection set (the for loop of find_path)
RECURSIVE explore(_, _, _)
explore(conns, visited, path) ==
    IF conns = <<>> THEN <<>>
    ELSE (IF Head(conns) \notin visited
          THEN << <<Head(conns), Append(path, Head(conns))>> >>
          ELSE <<>>)
         \o explore(Tail(conns), visited, path)

\* mutant of bfs: queue.pop() instead of queue.popleft() (depth first)
RECURSIVE bfs_lifo(_, _, _, _)
bfs_lifo(P, receiver_id, queue, visited) ==
    IF queue = <<>> THEN <<>>
    ELSE LET current_id == queue[Len(queue)][1]
             path == queue[Len(queue)][2]
             rest == SubSeq(queue, 1, Len(queue) - 1)
         IN  IF current_id \in visited
             THEN bfs_lifo(P, receiver_id, rest, visited)
             ELSE IF current_id = receiver_id
             THEN path
             ELSE bfs_lifo(P, receiver_id,
                      rest \o (IF current_id \in DOMAIN P
                               THEN explore(P[current_id].connections,
                                            visited \cup {current_id}, path)
                               ELSE <<>>),
                      visited \cup {current_id})

\* the while loop of find_path
RECURSIVE bfs(_, _, _, _)
bfs(P, receiver_id, queue, visited) ==
    IF queue = <<>> THEN <<>>
    ELSE LET current_id == queue[1][1]
             path == queue[1][2]
             rest == Tail(queue)
         IN  IF current_id \in visited
             THEN bfs(P, receiver_id, rest, visited)
             ELSE IF current_id = receiver_id
             THEN path
             ELSE bfs(P, receiver_id,
                      rest \o (IF current_id \in DOMAIN P
                               THEN explore(P[current_id].connections,
                                            visited \cup {current_id}, path)
                               ELSE <<>>),
                      visited \cup {current_id})

\* mutant of find_path: the queue starts with (sender_id, []) instead of
\* (sender_id, [sender_id])
find_path_empty_start(P, sender_id, receiver_id) ==
    IF sender_id = receiver_id THEN <<sender_id>>
    ELSE IF sender_id \notin DOMAIN P \/ receiver_id \notin DOMAIN P THEN <<>>
    ELSE bfs(P, receiver_id, << <<sender_id, <<>> >> >>, {})

\* CommunicationNetwork.find_path
find_path(P, sender_id, receiver_id) ==
    IF sender_id = receiver_id THEN <<sender_id>>
    ELSE IF sender_id \notin DOMAIN P \/ receiver_id \notin DOMAIN P THEN <<>>
    ELSE bfs(P, receiver_id, << <<sender_id, <<sender_id>> >> >>, {})

\* CommunicationNetwork.get_messages
get_messages(P, person_id) ==
    IF person_id \in DOMAIN P THEN P[person_id].messages ELSE <<>>

\* the friendships of the store, as unordered pairs
Edges(P) ==
    {{x[1], x[2]} : x \in {y \in (DOMAIN P) \X (DOMAIN P) :
                              y[2] \in connections(P, y[1])}}

(* ---------------------------------------------------------------------- *)
(* CommunicationNetwork: operations                                        *)
(* ---------------------------------------------------------------------- *)

\* no key pair, no ciphertext, no decryption yet (or the call raised)
NoKeys == [ok |-> FALSE, public_key |-> <<0, 0>>, private_key |-> <<0, 0>>]
NoEncryption ==
    [ok |-> FALSE, body |-> <<>>, encrypted_ints |-> <<>>,
     metadata |-> [encryption |-> "rsa", original_length |-> 0,
                   encrypted_length |-> 0, public_key_n |-> 0,
                   public_key_e |-> 0, character_count |-> 0]]
NoDecryption == [ok |-> FALSE, text |-> <<>>]

Init ==
    /\ people = <<>>
    /\ msgs = <<>>
    /\ ret = Ret("init", TRUE, None, None, 0, <<>>)
    /\ rsa = [stage |-> "init", keys |-> NoKeys, plaintext |-> <<>>,
              encrypted |-> NoEncryption, decrypted |-> NoDecryption]

\* mutant of AddPerson: no duplicate check, the Person is replaced
AddPersonOverwrite(person_id, name) ==
    /\ people' = [x \in DOMAIN people \cup {person_id} |->
                      IF x = person_id THEN Person(person_id, name)
                      ELSE people[x]]
    /\ ret' = Ret("add_person", TRUE, person_id, name, 0, <<>>)
    /\ UNCHANGED <<msgs, rsa>>

\* CommunicationNetwork.add_person; ok = FALSE is the ValueError
AddPerson(person_id, name) ==
    IF person_id \in DOMAIN people
    THEN /\ ret' = Ret("add_person", FALSE, person_id, name, 0, <<>>)
         /\ UNCHANGED <<people, msgs, rsa>>
    ELSE /\ people' = [x \in DOMAIN people \cup {person_id} |->
                          IF x = person_id THEN Person(person_id, name)
                          ELSE people[x]]
         /\ ret' = Ret("add_person", TRUE, person_id, name, 0, <<>>)
         /\ UNCHANGED <<msgs, rsa>>

\* mutant of Befriend: the second add_friend call is missing
BefriendOneWay(P, person1_id, person2_id, i, j) ==
    [P EXCEPT ![person1_id] = add_friend(@, person2_id, i)]

\* the store after the two add_friend calls of add_friendship
Befriend(P, person1_id, person2_id, i, j) ==
    LET P1 == [P EXCEPT ![person1_id] = add_friend(@, person2_id, i)]
    IN  [P1 EXCEPT ![person2_id] = add_friend(@, person1_id, j)]

\* CommunicationNetwork.add_friendship; ok = FALSE is the ValueError
AddFriendship(person1_id, person2_id) ==
    IF person1_id \notin DOMAIN people \/ person2_id \notin DOMAIN people
    THEN /\ ret' = Ret("add_friendship", FALSE, person1_id, person2_id, 0, <<>>)
         /\ UNCHANGED <<people, msgs, rsa>>
    ELSE /\ \/ {person1_id, person2_id} \in Edges(people)
            \/ Cardinality(Edges(people)) < MaxEdges
         /\ \E i \in Slots(people[person1_id], person2_id),
               j \in (IF person1_id = person2_id THEN {1}
                      ELSE Slots(people[person2_id], person1_id)) :
               people' = Befriend(people, person1_id, person2_id, i, j)
         /\ ret' = Ret("add_friendship", TRUE, person1_id, person2_id, 0, <<>>)
         /\ UNCHANGED <<msgs, rsa>>

\* A caller constructs a Message
NewMessage(sender_id, receiver_id) ==
    /\ msgs' = Append(msgs, Message(sender_id, receiver_id, "hello", "plain",
                                  <<>>))
    /\ ret' = Ret("Message", TRUE, None, None, Len(msgs) + 1, <<>>)
    /\ UNCHANGED <<people, rsa>>

\* mutant of SendMessage: the message is put in the inbox before the path
\* is looked at
SendMessageDeliverFirst(m) ==
    LET message == msgs[m]
        path == find_path(people, message.sender_id, message.receiver_id)
    IN  /\ message.receiver_id \in DOMAIN people
        /\ Len(people[message.receiver_id].messages) < MaxInbox
        /\ people' = [people EXCEPT ![message.receiver_id] = add_message(@, m)]
        /\ msgs' = IF path = <<>> THEN msgs ELSE [msgs EXCEPT ![m].route = path]
        /\ ret' = Ret("send_message", path # <<>>, None, None, m, <<>>)
        /\ UNCHANGED rsa

\* mutant of SendMessage: route is a list shared by all Message objects
SendMessageSharedRoute(m) ==
    LET message == msgs[m]
        path == find_path(people, message.sender_id, message.receiver_id)
    IN  IF path = <<>>
        THEN /\ ret' = Ret("send_message", FALSE, None, None, m, <<>>)
             /\ UNCHANGED <<people, msgs, rsa>>
        ELSE /\ msgs' = [k \in DOMAIN msgs |-> [msgs[k] EXCEPT !.route = path]]
             /\ UNCHANGED rsa
             /\ IF message.receiver_id \in DOMAIN people
                THEN /\ Len(people[message.receiver_id].messages) < MaxInbox
                     /\ people' = [people EXCEPT ![message.receiver_id] =
                                       add_message(@, m)]
                     /\ ret' = Ret("send_message", TRUE, None, None, m, <<>>)
                ELSE /\ ret' = Ret("send_message", FALSE, None, None, m, <<>>)
                     /\ UNCHANGED people

\* mutant of SendMessage: a path of one id (sender = receiver) is refused
SendMessageNoSelf(m) ==
    LET message == msgs[m]
        path == find_path(people, message.sender_id, message.receiver_id)
    IN  IF Len(path) <= 1
        THEN /\ ret' = Ret("send_message", FALSE, None, None, m, <<>>)
             /\ UNCHANGED <<people, msgs, rsa>>
        ELSE /\ msgs' = [msgs EXCEPT ![m].route = path]
             /\ UNCHANGED rsa
             /\ IF message.receiver_id \in DOMAIN people
                THEN /\ Len(people[message.receiver_id].messages) < MaxInbox
                     /\ people' = [people EXCEPT ![message.receiver_id] =
                                       add_message(@, m)]
                     /\ ret' = Ret("send_message", TRUE, None, None, m, <<>>)
                ELSE /\ ret' = Ret("send_message", FALSE, None, None, m, <<>>)
                     /\ UNCHANGED people

\* CommunicationNetwork.send_message on the Message object m
SendMessage(m) ==
    LET message == msgs[m]
        path == find_path(people, message.sender_id, message.receiver_id)
    IN  IF path = <<>>
        THEN /\ ret' = Ret("send_message", FALSE, None, None, m, <<>>)
             /\ UNCHANGED <<people, msgs, rsa>>
        ELSE /\ msgs' = [msgs EXCEPT ![m].route = path]
             /\ UNCHANGED rsa
             /\ IF message.receiver_id \in DOMAIN people
                THEN /\ Len(people[message.receiver_id].messages) < MaxInbox
                     /\ people' = [people EXCEPT ![message.receiver_id] =
                                       add_message(@, m)]
                     /\ ret' = Ret("send_message", TRUE, None, None, m, <<>>)
                ELSE /\ ret' = Ret("send_message", FALSE, None, None, m, <<>>)
                     /\ UNCHANGED people

\* A caller calls find_path; the store is not touched
FindPath(sender_id, receiver_id) ==
    /\ ret' = Ret("find_path", TRUE, sender_id, receiver_id, 0,
                  find_path(people, sender_id, receiver_id))
    /\ UNCHANGED <<people, msgs, rsa>>

\* delivery: a store over CoreIds, messages constructed and sent
Next ==
    \/ \E id \in CoreIds : AddPerson(id, "n1")
    \/ \E a \in CoreIds : \E b \in CoreIds \ {a} : AddFriendship(a, b)
    \/ \E sr \in Endpoints : Len(msgs) < MaxMsgs /\ NewMessage(sr[1], sr[2])
    \/ \E m \in DOMAIN msgs : SendMessage(m)

Spec == Init /\ [][Next]_vars

\* construction: a store over StoreIds, names, self-friendships, one message
NextStore ==
    \/ \E id \in StoreIds, name \in Names : AddPerson(id, name)
    \/ \E a \in StoreIds, b \in StoreIds : AddFriendship(a, b)
    \/ \E s \in StoreIds, r \in StoreIds :
          Len(msgs) < MaxStoreMsgs /\ NewMessage(s, r)
    \/ \E m \in DOMAIN msgs : SendMessage(m)

SpecStore == Init /\ [][NextStore]_vars

\* routing: a store over PersonIds, find_path called on it
NextPath ==
    \/ \E id \in PersonIds : AddPerson(id, "n1")
    \/ \E a \in PersonIds, b \in PersonIds : AddFriendship(a, b)
    \/ \E s \in PersonIds, r \in PersonIds : FindPath(s, r)

SpecPath == Init /\ [][NextPath]_vars

(* ---------------------------------------------------------------------- *)
(* RSA: number theory                                                      *)
(* ---------------------------------------------------------------------- *)

\* generate_rsa_keys samples its primes from [PrimeMin, PrimeMax]
PrimeMin == 100
PrimeMax == 500

\* the first candidate for the public exponent
PublicExponentSeed == 65537

\* the moduli of the key pairs the encryption callers go on with: the
\* products of the primes 101, 103, 257 and 499 of the sampling range
SampleModuli == {x[1] * x[2] : x \in {y \in {101, 103, 257, 499}
                                           \X {101, 103, 257, 499} :
                                       y[1] # y[2]}}

\* the code points the plaintexts are made of: NUL, "H", "i", multiples of
\* the primes (101, 499, 10403 = 101 * 103) and a code above every modulus
CharCodes == {0, 72, 105, 101, 499, 10403, 200000}

\* the small arguments of the number-theory callers are 0..MaxArg
MaxArg == 10

\* the arguments of the number-theory callers: the small ones, the public
\* exponent and phi = 100 * 102 of the key pair of 101 and 103
MathArgs == (0..MaxArg) \cup {PublicExponentSeed, 100 * 102}

\* plaintexts have at most this many characters
MaxLen == 2

\* int(math.sqrt(n))
isqrt(n) == CHOOSE k \in 0..n : k * k <= n /\ (k + 1) * (k + 1) > n

\* is_prime: trial division by the odd numbers up to the square root
is_prime(n) ==
    IF n < 2 THEN FALSE
    ELSE IF n = 2 THEN TRUE
    ELSE IF n % 2 = 0 THEN FALSE
    ELSE \A i \in 3..isqrt(n) : (i % 2 = 1) => (n % i # 0)

\* mutant of generate_prime: the first candidate is returned untested
generate_prime_unchecked(min_val, max_val) ==
    {c \in min_val..max_val : TRUE}

\* generate_prime: the values the sampling loop can return, random.randint
\* giving any integer of [min_val, max_val]
generate_prime(min_val, max_val) ==
    {c \in min_val..max_val : is_prime(c)}

\* math.gcd
RECURSIVE gcd(_, _)
gcd(a, b) == IF b = 0 THEN a ELSE gcd(b, a % b)

\* mutant of extended_gcd: the two coefficients are returned swapped
RECURSIVE extended_gcd_swapped(_, _)
extended_gcd_swapped(a, b) ==
    IF a = 0 THEN <<b, 0, 1>>
    ELSE LET r == extended_gcd_swapped(b % a, a)
             gcd1 == r[1]
             x1 == r[2]
             y1 == r[3]
         IN  <<gcd1, x1, y1 - ((b \div a) * x1)>>

\* extended_gcd: <<gcd, x, y>>
RECURSIVE extended_gcd(_, _)
extended_gcd(a, b) ==
    IF a = 0 THEN <<b, 0, 1>>
    ELSE LET r == extended_gcd(b % a, a)
             gcd1 == r[1]
             x1 == r[2]
             y1 == r[3]
         IN  <<gcd1, y1 - ((b \div a) * x1), x1>>

\* mutant of mod_inverse: the wrong coefficient of extended_gcd is unpacked
mod_inverse_wrong_coeff(e, phi) ==
    LET r == extended_gcd(e, phi)
    IN  IF r[1] # 1 THEN [ok |-> FALSE, value |-> 0]
        ELSE [ok |-> TRUE, value |-> ((r[3] % phi) + phi) % phi]

\* mod_inverse; ok = FALSE is the ValueError
mod_inverse(e, phi) ==
    LET r == extended_gcd(e, phi)
    IN  IF r[1] # 1 THEN [ok |-> FALSE, value |-> 0]
        ELSE [ok |-> TRUE, value |-> ((r[2] % phi) + phi) % phi]

\* the exponent search of generate_rsa_keys: e += 2 while not coprime
RECURSIVE find_e(_, _)
find_e(e, phi) == IF gcd(e, phi) # 1 THEN find_e(e + 2, phi) ELSE e

\* generate_rsa_keys, steps 2 to 4, for the sampled primes p and q
rsa_keys_from(p, q) ==
    LET n == p * q
        phi == (p - 1) * (q - 1)
        e == find_e(PublicExponentSeed, phi)
        d == mod_inverse(e, phi)
    IN  [ok |-> d.ok, public_key |-> <<n, e>>, private_key |-> <<n, d.value>>]

\* generate_rsa_keys: the results it can have (step 1 samples p, then q
\* until q # p)
generate_rsa_keys ==
    {rsa_keys_from(pq[1], pq[2]) :
        pq \in {c \in generate_prime(PrimeMin, PrimeMax)
                        \X generate_prime(PrimeMin, PrimeMax) : c[1] # c[2]}}

\* (a * b) % n for 0 <= a, b < 2^18, with a split into two bytes-wide
\* halves: Python's integers do not overflow, the products of the model
\* must not either
MulMod(a, b, n) ==
    (((((a \div 256) * b) % n) * 256) + ((a % 256) * b)) % n

\* pow(b, e, n) for e >= 0
RECURSIVE pow(_, _, _)
pow(b, e, n) ==
    IF e = 0 THEN 1 % n
    ELSE LET h == pow(b, e \div 2, n)
             sq == MulMod(h, h, n)
         IN  IF e % 2 = 1 THEN MulMod(sq, b % n, n) ELSE sq

(* ---------------------------------------------------------------------- *)
(* RSA: the transport encoding (text is a sequence of character codes)     *)
(* ---------------------------------------------------------------------- *)

\* str(k) for k >= 0
RECURSIVE Digits(_)
Digits(k) ==
    IF k < 10 THEN <<48 + k>> ELSE Digits(k \div 10) \o <<48 + (k % 10)>>

\* the items of json.dumps(list): numbers joined by ", "
RECURSIVE json_items(_)
json_items(ints) ==
    IF ints = <<>> THEN <<>>
    ELSE IF Len(ints) = 1 THEN Digits(ints[1])
    ELSE Digits(ints[1]) \o <<44, 32>> \o json_items(Tail(ints))

\* json.dumps of a list of non-negative integers: "[1, 22, 3]"
json_dumps(ints) == <<91>> \o json_items(ints) \o <<93>>

\* the character of a 6-bit value in the base64 alphabet
B64Char(v) ==
    IF v < 26 THEN 65 + v
    ELSE IF v < 52 THEN 97 + (v - 26)
    ELSE IF v < 62 THEN 48 + (v - 52)
    ELSE IF v = 62 THEN 43 ELSE 47

\* the 6-bit value of a base64 character, -1 for any other character
B64Val(c) ==
    IF 65 <= c /\ c <= 90 THEN c - 65
    ELSE IF 97 <= c /\ c <= 122 THEN (c - 97) + 26
    ELSE IF 48 <= c /\ c <= 57 THEN (c - 48) + 52
    ELSE IF c = 43 THEN 62
    ELSE IF c = 47 THEN 63 ELSE -1

\* base64.b64encode: three bytes to four characters, "=" padding
RECURSIVE b64encode(_)
b64encode(bytes) ==
    IF bytes = <<>> THEN <<>>
    ELSE IF Len(bytes) = 1
    THEN <<B64Char(bytes[1] \div 4), B64Char((bytes[1] % 4) * 16), 61, 61>>
    ELSE IF Len(bytes) = 2
    THEN <<B64Char(bytes[1] \div 4),
           B64Char(((bytes[1] % 4) * 16) + (bytes[2] \div 16)),
           B64Char((bytes[2] % 16) * 4), 61>>
    ELSE <<B64Char(bytes[1] \div 4),
           B64Char(((bytes[1] % 4) * 16) + (bytes[2] \div 16)),
           B64Char(((bytes[2] % 16) * 4) + (bytes[3] \div 64)),
           B64Char(bytes[3] % 64)>>
         \o b64encode(SubSeq(bytes, 4, Len(bytes)))

\* the bytes of one group of four base64 characters, "=" padding at its end
b64group(c1, c2, c3, c4) ==
    LET v1 == B64Val(c1)
        v2 == B64Val(c2)
        v3 == B64Val(c3)
        v4 == B64Val(c4)
        b1 == (v1 * 4) + (v2 \div 16)
        b2 == ((v2 % 16) * 16) + (v3 \div 4)
        b3 == ((v3 % 4) * 64) + v4
    IN  IF v1 < 0 \/ v2 < 0 THEN [ok |-> FALSE, value |-> <<>>, last |-> FALSE]
        ELSE IF c3 = 61 /\ c4 = 61
        THEN [ok |-> TRUE, value |-> <<b1>>, last |-> TRUE]
        ELSE IF c4 = 61
        THEN [ok |-> v3 >= 0, value |-> <<b1, b2>>, last |-> TRUE]
        ELSE [ok |-> v3 >= 0 /\ v4 >= 0, value |-> <<b1, b2, b3>>,
              last |-> FALSE]

\* base64.b64decode of padded text; ok = FALSE is binascii.Error
RECURSIVE b64decode(_)
b64decode(text) ==
    IF text = <<>> THEN [ok |-> TRUE, value |-> <<>>]
    ELSE IF Len(text) < 4 THEN [ok |-> FALSE, value |-> <<>>]
    ELSE LET g == b64group(text[1], text[2], text[3], text[4])
         IN  IF ~g.ok \/ (g.last /\ Len(text) > 4)
             THEN [ok |-> FALSE, value |-> <<>>]
             ELSE IF Len(text) = 4 THEN [ok |-> TRUE, value |-> g.value]
             ELSE [ok |-> b64decode(SubSeq(text, 5, Len(text))).ok,
                   value |-> g.value \o
                             b64decode(SubSeq(text, 5, Len(text))).value]

\* the items of json.loads after the "[": cur is the number being read
\* (-1: none), acc the numbers read; ok = FALSE is json.JSONDecodeError
RECURSIVE json_parse(_, _, _)
json_parse(text, cur, acc) ==
    IF text = <<>> THEN [ok |-> FALSE, value |-> <<>>]
    ELSE LET c == text[1] IN
         IF 48 <= c /\ c <= 57
         THEN json_parse(Tail(text), (IF cur < 0 THEN 0 ELSE cur * 10) + (c - 48), acc)
         ELSE IF c = 44
         THEN IF cur < 0 THEN [ok |-> FALSE, value |-> <<>>]
              ELSE json_parse(Tail(text), -1, Append(acc, cur))
         ELSE IF c = 32
         THEN IF cur >= 0 THEN [ok |-> FALSE, value |-> <<>>]
              ELSE json_parse(Tail(text), -1, acc)
         ELSE IF c = 93
         THEN IF Len(text) > 1 \/ (cur < 0 /\ acc # <<>>)
              THEN [ok |-> FALSE, value |-> <<>>]
              ELSE [ok |-> TRUE,
                    value |-> IF cur < 0 THEN acc ELSE Append(acc, cur)]
         ELSE [ok |-> FALSE, value |-> <<>>]

\* json.loads of the text of a list of non-negative integers
json_loads(text) ==
    IF text = <<>> \/ text[1] # 91 THEN [ok |-> FALSE, value |-> <<>>]
    ELSE json_parse(Tail(text), -1, <<>>)

(* ---------------------------------------------------------------------- *)
(* RSAMessaging: encrypt_message and decrypt_message                       *)
(* ---------------------------------------------------------------------- *)

\* [pow(c, x, n) for c in ints]
RECURSIVE pow_each(_, _, _)
pow_each(ints, x, n) ==
    IF ints = <<>> THEN <<>>
    ELSE <<pow(ints[1], x, n)>> \o pow_each(Tail(ints), x, n)

\* mutant of encrypt_message: a code >= n is reduced modulo n, not refused
encrypt_message_reduce(plaintext, public_key) ==
    LET n == public_key[1]
        e == public_key[2]
        encrypted_ints == pow_each([i \in DOMAIN plaintext |->
                                       plaintext[i] % n], e, n)
        encrypted_b64 == b64encode(json_dumps(encrypted_ints))
    IN  [ok |-> TRUE, body |-> encrypted_b64,
         encrypted_ints |-> encrypted_ints,
         metadata |-> [encryption |-> "rsa",
                       original_length |-> Len(plaintext),
                       encrypted_length |-> Len(encrypted_b64),
                       public_key_n |-> n,
                       public_key_e |-> e,
                       character_count |-> Len(plaintext)]]

\* RSAMessaging.encrypt_message; a character is its code point (ord);
\* ok = FALSE is the ValueError for a code >= n
encrypt_message(plaintext, public_key) ==
    LET n == public_key[1]
        e == public_key[2]
    IN  IF \E i \in DOMAIN plaintext : plaintext[i] >= n
        THEN NoEncryption
        ELSE LET encrypted_ints == pow_each(plaintext, e, n)
                 encrypted_b64 == b64encode(json_dumps(encrypted_ints))
             IN  [ok |-> TRUE, body |-> encrypted_b64,
                  encrypted_ints |-> encrypted_ints,
                  metadata |-> [encryption |-> "rsa",
                                original_length |-> Len(plaintext),
                                encrypted_length |-> Len(encrypted_b64),
                                public_key_n |-> n,
                                public_key_e |-> e,
                                character_count |-> Len(plaintext)]]

\* RSAMessaging.decrypt_message; ok = FALSE is the ValueError that wraps
\* every failure of the decoding
decrypt_message(encrypted_message, private_key) ==
    LET n == private_key[1]
        d == private_key[2]
        encrypted_json == b64decode(encrypted_message)
        encrypted_ints == IF encrypted_json.ok
                          THEN json_loads(encrypted_json.value)
                          ELSE [ok |-> FALSE, value |-> <<>>]
    IN  IF ~encrypted_ints.ok THEN NoDecryption
        ELSE [ok |-> TRUE, text |-> pow_each(encrypted_ints.value, d, n)]

\* the plaintexts of the callers: up to MaxLen characters of CharCodes
Plaintexts == UNION {[1..k -> CharCodes] : k \in 0..MaxLen}

\* the caller's locals
Rsa(stage, keys, plaintext, encrypted, decrypted) ==
    [stage |-> stage, keys |-> keys, plaintext |-> plaintext,
     encrypted |-> encrypted, decrypted |-> decrypted]

\* test_rsa_directly: the key pair is generated
GenerateKeys ==
    /\ rsa.stage = "init"
    /\ \E k \in generate_rsa_keys :
          rsa' = Rsa(IF k.ok THEN "keys" ELSE "keygen_failed", k, <<>>,
                     NoEncryption, NoDecryption)
    /\ UNCHANGED <<people, msgs, ret>>

\* test_rsa_directly: a message is encrypted with the public key
Encrypt(plaintext) ==
    /\ rsa.stage = "keys"
    /\ LET enc == encrypt_message(plaintext, rsa.keys.public_key)
       IN  rsa' = Rsa(IF enc.ok THEN "encrypted" ELSE "encrypt_failed",
                      rsa.keys, plaintext, enc, NoDecryption)
    /\ UNCHANGED <<people, msgs, ret>>

\* test_rsa_directly: the ciphertext is decrypted with the private key
Decrypt ==
    /\ rsa.stage = "encrypted"
    /\ LET dec == decrypt_message(rsa.encrypted.body, rsa.keys.private_key)
       IN  rsa' = Rsa(IF dec.ok THEN "decrypted" ELSE "decrypt_failed",
                      rsa.keys, rsa.plaintext, rsa.encrypted, dec)
    /\ UNCHANGED <<people, msgs, ret>>

\* key generation alone, over every outcome of the sampling
NextKeys == GenerateKeys

SpecKeys == Init /\ [][NextKeys]_vars

\* A caller calls extended_gcd
ExtendedGcd(a, b) ==
    /\ ret' = Ret("extended_gcd", TRUE, a, b, 0, extended_gcd(a, b))
    /\ UNCHANGED <<people, msgs, rsa>>

\* A caller calls mod_inverse; ok = FALSE is the ValueError
ModInverse(e, phi) ==
    /\ LET r == mod_inverse(e, phi)
       IN  ret' = Ret("mod_inverse", r.ok, e, phi, r.value, <<>>)
    /\ UNCHANGED <<people, msgs, rsa>>

\* the number theory alone: extended_gcd on non-negative arguments,
\* mod_inverse on positive ones
NextMath ==
    \/ \E a \in MathArgs, b \in MathArgs : ExtendedGcd(a, b)
    \/ \E e \in MathArgs \ {0}, phi \in MathArgs \ {0} : ModInverse(e, phi)

SpecMath == Init /\ [][NextMath]_vars

\* the direct RSA test: keys (of the sample moduli), one encryption, its
\* decryption
NextRSA ==
    \/ GenerateKeys /\ rsa'.keys.public_key[1] \in SampleModuli
    \/ \E plaintext \in Plaintexts : Encrypt(plaintext)
    \/ Decrypt

SpecRSA == Init /\ [][NextRSA]_vars

(* ---------------------------------------------------------------------- *)
(* RSAMessaging on the network                                             *)
(* ---------------------------------------------------------------------- *)

\* person ids the callers of the encrypted messaging use
EncIds == {"A", "B"}

\* the key pairs generate_rsa_keys returns to these callers: those of the
\* moduli 101 * 103 and 257 * 499
EncKeys ==
    {k \in generate_rsa_keys : k.public_key[1] \in {101 * 103, 257 * 499}}

\* the plaintexts these callers send: "", "Hi", "e" (101, a multiple of a
\* prime of the first modulus) and a code above every modulus
EncPlaintexts == {<<>>, <<72, 105>>, <<101>>, <<200000>>}

\* at most this many encrypted messages are delivered
MaxEncMsgs == 2

\* RSAMessaging.setup_person_keys with keys the result of generate_rsa_keys
setup_person_keys(person, keys) ==
    [person EXCEPT !.public_key = keys.public_key,
                   !.private_key = keys.private_key]

\* mutant of encryption_key: the sender's public key
encryption_key_sender(P, sender_id, receiver_id) == P[sender_id].public_key

\* the key send_encrypted_message encrypts with: receiver.public_key
encryption_key(P, sender_id, receiver_id) == P[receiver_id].public_key

\* RSAMessaging.decrypt_received_message on the store P and the Message
\* objects M, message_index >= 0; ok = FALSE is a ValueError
decrypt_received_message(P, M, person_id, message_index) ==
    LET person == P[person_id]
    IN  IF message_index >= Len(person.messages) THEN NoDecryption
        ELSE IF M[person.messages[message_index + 1]].message_type
                    # "rsa_encrypted"
        THEN NoDecryption
        ELSE IF person.private_key = <<>> THEN NoDecryption
        ELSE decrypt_message(
                 M[person.messages[message_index + 1]].message_body,
                 person.private_key)

\* A caller calls setup_person_keys on a Person of the store;
\* generate_rsa_keys returns keys
SetupPersonKeys(person_id, keys) ==
    /\ person_id \in DOMAIN people
    /\ people' = [people EXCEPT ![person_id] = setup_person_keys(@, keys)]
    /\ ret' = Ret("setup_person_keys", TRUE, person_id, None, 0, <<>>)
    /\ UNCHANGED <<msgs, rsa>>

\* RSAMessaging.send_encrypted_message; keys_r and keys_s are what
\* generate_rsa_keys returns if the receiver, then the sender, is given keys
SendEncryptedMessage(sender_id, receiver_id, plaintext, keys_r, keys_s) ==
    IF sender_id \notin DOMAIN people \/ receiver_id \notin DOMAIN people
    THEN /\ ret' = Ret("send_encrypted_message", FALSE, sender_id,
                       receiver_id, 0, <<>>)
         /\ rsa' = Rsa("send_failed", NoKeys, plaintext, NoEncryption,
                       NoDecryption)
         /\ UNCHANGED <<people, msgs>>
    ELSE LET P1 == IF people[receiver_id].public_key = <<>>
                   THEN [people EXCEPT ![receiver_id] =
                            setup_person_keys(@, keys_r)]
                   ELSE people
             P2 == IF P1[sender_id].public_key = <<>>
                   THEN [P1 EXCEPT ![sender_id] = setup_person_keys(@, keys_s)]
                   ELSE P1
             enc == encrypt_message(plaintext,
                        encryption_key(P2, sender_id, receiver_id))
             path == find_path(P2, sender_id, receiver_id)
             m == Len(msgs) + 1
             message == [Message(sender_id, receiver_id, enc.body,
                                 "rsa_encrypted", enc.metadata)
                            EXCEPT !.route = path]
         IN  IF ~enc.ok \/ path = <<>>
             THEN /\ people' = P2
                  /\ ret' = Ret("send_encrypted_message", FALSE, sender_id,
                                receiver_id, 0, <<>>)
                  /\ rsa' = Rsa("send_failed", NoKeys, plaintext, enc,
                                NoDecryption)
                  /\ UNCHANGED msgs
             ELSE /\ Len(P2[receiver_id].messages) < MaxInbox
                  /\ msgs' = Append(msgs, message)
                  /\ people' = [P2 EXCEPT ![receiver_id] = add_message(@, m)]
                  /\ ret' = Ret("send_encrypted_message", TRUE, sender_id,
                                receiver_id, m, <<>>)
                  /\ rsa' = Rsa("sent", NoKeys, plaintext, enc, NoDecryption)

\* A caller calls decrypt_received_message on a Person of the store
DecryptReceivedMessage(person_id, message_index) ==
    /\ person_id \in DOMAIN people
    /\ LET dec == decrypt_received_message(people, msgs, person_id,
                                           message_index)
       IN  /\ rsa' = Rsa(IF dec.ok THEN "decrypted" ELSE "decrypt_failed",
                         NoKeys, <<>>, NoEncryption, dec)
           /\ ret' = Ret("decrypt_received_message", dec.ok, person_id,
                         None, message_index, <<>>)
    /\ UNCHANGED <<people, msgs>>

\* what generate_rsa_keys can return when send_encrypted_message gives
\* person_id its keys; a single, unused, value when it does not call it
GeneratedKeys(person_id) ==
    IF person_id \in DOMAIN people /\ people[person_id].public_key = <<>>
    THEN EncKeys
    ELSE {NoKeys}

\* encrypted messaging: a store over EncIds, keys set up, encrypted messages
\* sent and decrypted
NextEnc ==
    \/ \E id \in EncIds : AddPerson(id, "n1")
    \/ \E a \in EncIds : \E b \in EncIds \ {a} : AddFriendship(a, b)
    \/ \E id \in EncIds, keys \in EncKeys : SetupPersonKeys(id, keys)
    \/ \E s \in EncIds, r \in EncIds, plaintext \in EncPlaintexts :
       \E keys_r \in GeneratedKeys(r) :
       \E keys_s \in (IF s = r THEN {NoKeys} ELSE GeneratedKeys(s)) :
          /\ Len(msgs) < MaxEncMsgs
          /\ SendEncryptedMessage(s, r, plaintext, keys_r, keys_s)
    \/ \E id \in EncIds, i \in 0..MaxEncMsgs : DecryptReceivedMessage(id, i)

SpecEnc == Init /\ [][NextEnc]_vars

(* ---------------------------------------------------------------------- *)
(* Claims about RSA                                                        *)
(* ---------------------------------------------------------------------- *)

\* C10: for every generated key pair and every plaintext whose codes are
\* all below n, decrypting the encryption gives the plaintext back.
RsaRoundTrip ==
    rsa.stage \in {"encrypted", "encrypt_failed", "decrypted", "decrypt_failed"} =>
        IF \A i \in DOMAIN rsa.plaintext :
               rsa.plaintext[i] < rsa.keys.public_key[1]
        THEN /\ rsa.stage \in {"encrypted", "decrypted"}
             /\ rsa.stage = "decrypted" => rsa.decrypted.text = rsa.plaintext
        ELSE rsa.stage = "encrypt_failed"

\* C10 witness: a two-character plaintext holding a positive multiple of a
\* prime factor of n was encrypted and decrypted.
RsaRoundTripWitness ==
    /\ rsa.stage = "decrypted"
    /\ Len(rsa.plaintext) = 2
    /\ rsa.plaintext[1] # rsa.plaintext[2]
    /\ \E i \in DOMAIN rsa.plaintext :
          /\ rsa.plaintext[i] > 0
          /\ gcd(rsa.plaintext[i], rsa.keys.public_key[1]) > 1

\* k is a prime number (by its divisors, not by is_prime)
IsPrime(k) == k > 1 /\ \A i \in 2..(k - 1) : k % i # 0

\* C11: every key pair generate_rsa_keys returns is ((n, e), (n, d)) with
\* n = p * q for two distinct primes of the sampling range, e odd and
\* coprime to phi = (p - 1)(q - 1), 0 <= d < phi and e * d = 1 modulo phi;
\* the key generation never fails (the modular inverse never raises).
KeypairValid ==
    rsa.stage # "init" =>
        /\ rsa.stage # "keygen_failed"
        /\ rsa.keys.ok
        /\ LET n == rsa.keys.public_key[1]
               e == rsa.keys.public_key[2]
               d == rsa.keys.private_key[2]
           IN  /\ rsa.keys.private_key[1] = n
               /\ \E p \in PrimeMin..PrimeMax :
                     /\ n % p = 0
                     /\ LET q == n \div p
                            phi == (p - 1) * (q - 1)
                        IN  /\ q \in PrimeMin..PrimeMax
                            /\ q # p
                            /\ IsPrime(p)
                            /\ IsPrime(q)
                            /\ e % 2 = 1
                            /\ gcd(e, phi) = 1
                            /\ 0 <= d
                            /\ d < phi
                            /\ MulMod(e % phi, d, phi) = 1

\* C11 witness: the key pair of the largest and a middle prime of the
\* samples (n = 499 * 257) was generated.
KeypairValidWitness ==
    /\ rsa.stage = "keys"
    /\ rsa.keys.public_key[1] = 499 * 257
    /\ rsa.keys.public_key[2] = PublicExponentSeed

\* C12: encrypt_message raises iff some character code is >= n; then no
\* ciphertext is returned; otherwise the i-th cipher integer is
\* code_i^e mod n, character by character, so equal characters have equal
\* cipher integers, and the returned text carries exactly these integers.
EncryptRangeCheck ==
    rsa.stage \in {"encrypted", "encrypt_failed", "decrypted", "decrypt_failed"} =>
        LET n == rsa.keys.public_key[1]
            e == rsa.keys.public_key[2]
            m == rsa.plaintext
            c == rsa.encrypted.encrypted_ints
        IN  IF \E i \in DOMAIN m : m[i] >= n
            THEN /\ rsa.stage = "encrypt_failed"
                 /\ rsa.encrypted = NoEncryption
            ELSE /\ rsa.stage # "encrypt_failed"
                 /\ rsa.encrypted.ok
                 /\ Len(c) = Len(m)
                 /\ \A i \in DOMAIN m : c[i] = pow(m[i], e, n)
                 /\ \A i \in DOMAIN m : \A j \in DOMAIN m :
                       m[i] = m[j] => c[i] = c[j]
                 /\ json_loads(b64decode(rsa.encrypted.body).value)
                       = [ok |-> TRUE, value |-> c]

\* C12 witness: a two-character plaintext whose first code is below n and
\* whose second is not was refused.
EncryptRangeCheckWitness ==
    /\ rsa.stage = "encrypt_failed"
    /\ Len(rsa.plaintext) = 2
    /\ rsa.plaintext[1] < rsa.keys.public_key[1]
    /\ rsa.plaintext[1] > 0
    /\ rsa.plaintext[2] >= rsa.keys.public_key[1]

\* the greatest common divisor by its definition (0 for 0 and 0)
GreatestCommonDivisor(a, b) ==
    LET m == IF a > b THEN a ELSE b
        common == {k \in 1..m : a % k = 0 /\ b % k = 0}
    IN  IF m = 0 THEN 0
        ELSE CHOOSE g \in common : \A k \in common : k <= g

\* C14: extended_gcd(a, b) returns (g, x, y) with g = gcd(a, b) and
\* a*x + b*y = g for non-negative a, b; mod_inverse(e, phi) for positive
\* e, phi raises exactly when gcd(e, phi) # 1 and otherwise returns r with
\* 0 <= r < phi and (e * r) mod phi = 1 mod phi.
ModInverseCorrect ==
    /\ ret.op = "extended_gcd" =>
          /\ ret.path[1] = GreatestCommonDivisor(ret.a, ret.b)
          /\ (ret.a * ret.path[2]) + (ret.b * ret.path[3]) = ret.path[1]
    /\ ret.op = "mod_inverse" =>
          /\ ret.ok <=> GreatestCommonDivisor(ret.a, ret.b) = 1
          /\ ret.ok => /\ 0 <= ret.m
                       /\ ret.m < ret.b
                       /\ (ret.a * ret.m) % ret.b = 1 % ret.b

\* C14 witness: mod_inverse(65537, 10200) returned the private exponent
\* 10073 of the key pair of 101 and 103.
ModInverseCorrectWitness ==
    /\ ret.op = "mod_inverse"
    /\ ret.a = PublicExponentSeed
    /\ ret.b = 100 * 102
    /\ ret.ok
    /\ ret.m = 10073

(* ---------------------------------------------------------------------- *)
(* Claims about the network                                                *)
(* ---------------------------------------------------------------------- *)

\* C1: friendship is symmetric in every reachable state: for all ids A, B of
\* the store, A is in connections(B) iff B is in connections(A).
FriendshipSymmetric ==
    \A a \in DOMAIN people : \A b \in DOMAIN people :
        a \in connections(people, b) <=> b \in connections(people, a)

\* C1 witness: after add_friendship(A, A), add_friendship(A, B) and a
\* send_message, A is a friend of itself and of B, and B of A.
FriendshipSymmetricWitness ==
    /\ DOMAIN people = {"A", "B"}
    /\ connections(people, "A") = {"A", "B"}
    /\ connections(people, "B") = {"A"}
    /\ ret.op = "send_message"

\* the sequences of k + 1 ids of the store that start at s, end at r and
\* follow a friendship at every hop
Walks(P, s, r, k) ==
    {w \in [1..(k + 1) -> DOMAIN P] :
        /\ w[1] = s
        /\ w[k + 1] = r
        /\ \A i \in 1..k : w[i + 1] \in connections(P, w[i])}

\* C2: a non-empty result of find_path has the least number of hops: no walk
\* from sender to receiver along friendships has fewer.
FindPathShortest ==
    (ret.op = "find_path" /\ ret.path # <<>>) =>
        \A k \in 0..(Len(ret.path) - 2) : Walks(people, ret.a, ret.b, k) = {}

\* C2 witness: chain A-B-C-D with the shortcut A-C; find_path(A, D) goes
\* through C.
FindPathShortestWitness ==
    /\ DOMAIN people = {"A", "B", "C", "D"}
    /\ Edges(people) = {{"A", "B"}, {"B", "C"}, {"C", "D"}, {"A", "C"}}
    /\ ret.op = "find_path" /\ ret.a = "A" /\ ret.b = "D"
    /\ ret.path = <<"A", "C", "D">>

\* the ids reachable from the set S along friendships
RECURSIVE Reach(_, _)
Reach(P, S) ==
    LET T == S \cup UNION {connections(P, x) : x \in S \cap DOMAIN P}
    IN  IF T = S THEN S ELSE Reach(P, T)

\* C3 (as claimed): find_path returns the empty sequence whenever sender or
\* receiver is absent from the store (sender = receiver included) and whenever
\* both are present in different connected components.
FindPathEmptyWhenAbsent ==
    ret.op = "find_path" =>
        /\ (ret.a \notin DOMAIN people \/ ret.b \notin DOMAIN people)
               => ret.path = <<>>
        /\ (ret.a \in DOMAIN people /\ ret.b \in DOMAIN people
               /\ ret.b \notin Reach(people, {ret.a})) => ret.path = <<>>

\* C4: when find_path is empty for the message, send_message returns False
\* and changes no mailbox, no connection set and no route.
SendWithoutPathChangesNothing ==
    [][(ret'.op = "send_message" /\ ret'.m \in DOMAIN msgs
          /\ find_path(people, msgs[ret'.m].sender_id,
                       msgs[ret'.m].receiver_id) = <<>>)
        => (ret'.ok = FALSE /\ people' = people /\ msgs' = msgs)]_vars

\* C4 witness: A and an edge-less C are in the store, a message from A to C
\* was sent and failed; C's mailbox is empty.
SendWithoutPathWitness ==
    /\ ret.op = "send_message" /\ ret.ok = FALSE
    /\ msgs[ret.m].sender_id = "A" /\ msgs[ret.m].receiver_id = "C"
    /\ {"A", "B", "C"} = DOMAIN people
    /\ connections(people, "C") = {}
    /\ connections(people, "A") = {"B"}
    /\ people["C"].messages = <<>>
    /\ msgs[ret.m].route = <<>>

\* C5 (as claimed): every send_message either returns True having stamped
\* the route and appended the message to the receiver's mailbox, or returns
\* False and leaves every route, mailbox and connection set as it was.
SendAllOrNothing ==
    [][ret'.op = "send_message" =>
         \/ /\ ret'.ok = TRUE
            /\ msgs'[ret'.m].route # <<>>
            /\ msgs[ret'.m].receiver_id \in DOMAIN people
            /\ people'[msgs[ret'.m].receiver_id].messages =
                  Append(people[msgs[ret'.m].receiver_id].messages, ret'.m)
         \/ /\ ret'.ok = FALSE
            /\ msgs' = msgs
            /\ people' = people]_vars

\* C6: every message whose route is set has a route that starts with its
\* sender_id and ends with its receiver_id.
RouteEndsMatch ==
    \A m \in DOMAIN msgs :
        msgs[m].route # <<>> =>
            /\ msgs[m].route[1] = msgs[m].sender_id
            /\ msgs[m].route[Len(msgs[m].route)] = msgs[m].receiver_id

\* C6 witness: a message from A to C delivered over B.
RouteEndsMatchWitness ==
    \E m \in DOMAIN msgs :
        /\ msgs[m].route = <<"A", "B", "C">>
        /\ m \in Range(people["C"].messages)

\* C7 (as claimed): once a route is stamped, no later operation changes it.
RouteSetOnce ==
    [][\A m \in DOMAIN msgs :
          msgs[m].route # <<>> => msgs'[m].route = msgs[m].route]_vars

\* C7 (amended): a stamped route changes only in a send_message of that same
\* Message object, which overwrites it with the non-empty path find_path
\* gives in the store of that moment; add_person, add_friendship and the
\* send of any other message leave it alone.
RouteChangesOnlyByResend ==
    [][\A m \in DOMAIN msgs :
          (msgs[m].route # <<>> /\ msgs'[m].route # msgs[m].route) =>
              /\ ret'.op = "send_message"
              /\ ret'.m = m
              /\ msgs'[m].route # <<>>
              /\ msgs'[m].route = find_path(people, msgs[m].sender_id,
                                            msgs[m].receiver_id)]_vars

\* C7 witness: the same Message object was delivered to C twice, the second
\* time over the new friendship A-C, while another stamped message exists.
RouteResendWitness ==
    /\ ret.op = "send_message" /\ ret.ok = TRUE
    /\ "C" \in DOMAIN people
    /\ people["C"].messages = <<ret.m, ret.m>>
    /\ msgs[ret.m].route = <<"A", "C">>
    /\ "B" \in connections(people, "A") /\ "C" \in connections(people, "B")
    /\ \E k \in DOMAIN msgs : k # ret.m /\ msgs[k].route # <<>>

\* C8: mailboxes are append-only and in delivery order: in every step the
\* mailbox of every person grows by exactly the sent message, at its end,
\* when the step is a successful send_message addressed to that person, and
\* is unchanged otherwise; get_messages returns that sequence.
MailboxAppendOnly ==
    [][\A p \in DOMAIN people :
          /\ get_messages(people', p) = people'[p].messages
          /\ IF ret'.op = "send_message" /\ ret'.ok = TRUE
                 /\ msgs[ret'.m].receiver_id = p
             THEN get_messages(people', p) =
                      Append(get_messages(people, p), ret'.m)
             ELSE get_messages(people', p) = get_messages(people, p)]_vars

\* C8 witness: C's mailbox holds the second Message object and then the
\* first, the order of their delivery.
MailboxAppendOnlyWitness ==
    /\ "C" \in DOMAIN people
    /\ get_messages(people, "C") = <<2, 1>>
    /\ ret.op = "send_message" /\ ret.ok = TRUE /\ ret.m = 1

\* C9: add_person with an id already in the store raises and leaves the
\* store as it was (the Person keeps its name, connections and mailbox);
\* add_friendship with an absent id raises and leaves every connection set
\* as it was.
ConstructionErrorsAtomic ==
    [][/\ (ret'.op = "add_person" /\ ret'.a \in DOMAIN people) =>
            (ret'.ok = FALSE /\ people' = people /\ msgs' = msgs)
       /\ (ret'.op = "add_friendship"
              /\ (ret'.a \notin DOMAIN people \/ ret'.b \notin DOMAIN people)) =>
            (ret'.ok = FALSE /\ people' = people /\ msgs' = msgs)]_vars

\* C9 witness: add_person(A, other name) was refused while A had a friend
\* and a delivered message.
ConstructionErrorsWitness ==
    /\ ret.op = "add_person" /\ ret.ok = FALSE /\ ret.a = "A"
    /\ people["A"].name # ret.b
    /\ people["A"].connections # <<>>
    /\ people["A"].messages # <<>>

\* C15: for sender # receiver a non-empty result of find_path is a simple
\* path of the friend graph: it starts with the sender, ends with the
\* receiver, holds no id twice, only ids of the store, and every two
\* consecutive ids are friends of each other; the search ends on every
\* graph, cycles and self-friendships included.
PathWellFormed ==
    (ret.op = "find_path" /\ ret.a # ret.b /\ ret.path # <<>>) =>
        LET path == ret.path
        IN  /\ path[1] = ret.a
            /\ path[Len(path)] = ret.b
            /\ \A i \in DOMAIN path : \A j \in DOMAIN path :
                  path[i] = path[j] => i = j
            /\ \A i \in DOMAIN path : path[i] \in DOMAIN people
            /\ \A i \in 1..(Len(path) - 1) :
                  /\ path[i + 1] \in connections(people, path[i])
                  /\ path[i] \in connections(people, path[i + 1])

\* C15 witness: A is its own friend, A-B-C-A is a cycle, and find_path(B, C)
\* returned the direct hop.
PathWellFormedWitness ==
    /\ Edges(people) = {{"A"}, {"A", "B"}, {"B", "C"}, {"A", "C"}}
    /\ ret.op = "find_path" /\ ret.a = "B" /\ ret.b = "C"
    /\ ret.path = <<"B", "C">>

\* C16: send_message returns True iff the receiver is in the store and
\* either sender = receiver or the sender is in the store and a chain of
\* friendships links it to the receiver; a person without friends delivers
\* to themselves with the route [id].
DeliveryCondition ==
    ret.op = "send_message" =>
        LET s == msgs[ret.m].sender_id
            r == msgs[ret.m].receiver_id
        IN  /\ ret.ok <=> /\ r \in DOMAIN people
                          /\ \/ s = r
                             \/ /\ s \in DOMAIN people
                                /\ r \in Reach(people, {s})
            /\ (ret.ok /\ s = r) => msgs[ret.m].route = <<r>>

\* C16 witness: C, in the store without any friend, sent a message to
\* itself; it is in C's mailbox with the route [C].
DeliveryConditionWitness ==
    /\ ret.op = "send_message" /\ ret.ok
    /\ "C" \in DOMAIN people
    /\ connections(people, "C") = {}
    /\ msgs[ret.m].sender_id = "C" /\ msgs[ret.m].receiver_id = "C"
    /\ msgs[ret.m].route = <<"C">>
    /\ people["C"].messages = <<ret.m>>

(* ---------------------------------------------------------------------- *)
(* Claims about the encrypted messaging                                    *)
(* ---------------------------------------------------------------------- *)

\* C13 (as claimed): once a person has a key pair attached, no later
\* setup_person_keys or send_encrypted_message call replaces it with a
\* different one.
KeysNeverRotated ==
    [][\A id \in DOMAIN people :
          people[id].public_key # <<>> =>
              /\ people'[id].public_key = people[id].public_key
              /\ people'[id].private_key = people[id].private_key]_vars

\* C17: when send_encrypted_message(network, s, r, m) returns True the
\* last entry of r's mailbox is the new message, of type "rsa_encrypted",
\* encrypted with r's public key, and decrypt_received_message(r, its
\* index) returns m; when it returns False no mailbox changes (key pairs
\* may have been attached).
EncryptedDelivery ==
    [][ret'.op = "send_encrypted_message" =>
          IF ret'.ok
          THEN LET r == ret'.b
                   box == people'[r].messages
                   last == msgs'[box[Len(box)]]
               IN  /\ box = Append(people[r].messages, ret'.m)
                   /\ \A id \in DOMAIN people \ {r} :
                         people'[id].messages = people[id].messages
                   /\ last.sender_id = ret'.a
                   /\ last.receiver_id = r
                   /\ last.message_type = "rsa_encrypted"
                   /\ last.metadata.public_key_n = people'[r].public_key[1]
                   /\ last.message_body
                         = encrypt_message(rsa'.plaintext,
                                           people'[r].public_key).body
                   /\ decrypt_received_message(people', msgs', r, Len(box) - 1)
                         = [ok |-> TRUE, text |-> rsa'.plaintext]
          ELSE /\ DOMAIN people' = DOMAIN people
               /\ msgs' = msgs
               /\ \A id \in DOMAIN people :
                     people'[id].messages = people[id].messages]_vars

\* C17 witness: A sent "Hi" to its friend B, whose key pair differs from
\* A's; it is the second entry of B's mailbox.
EncryptedDeliveryWitness ==
    /\ ret.op = "send_encrypted_message" /\ ret.ok
    /\ ret.a = "A" /\ ret.b = "B"
    /\ rsa.plaintext = <<72, 105>>
    /\ people["A"].public_key # people["B"].public_key
    /\ Len(people["B"].messages) = 2
    /\ people["B"].messages[2] = ret.m

====
